---- MODULE Spec2Model ----
(***************************************************************************)
(* Model of the meowshapes drawing context (Ctx) and of the Renderer's     *)
(* animation loop: scene membership under RETAINED / IMMEDIATE mode, the   *)
(* garbage list, the update callbacks and the frame clock.                 *)
(*                                                                         *)
(* User code (the setup function, the update callbacks, DOM event          *)
(* handlers) is a nondeterministic sequence of calls of the Ctx API.       *)
(* __tick is split at the calls of the user callbacks: Frame is the part   *)
(* before the first callback, CallFn / FnReturn one loop iteration, Render *)
(* the part of the animation-loop callback after __tick has returned.      *)
(*                                                                         *)
(* Spec is the scene, the callbacks, the clock, the resize observer and    *)
(* the orbit controller.  SpecGraph is the camera scale (zoom) and the     *)
(* graph factories, whose arithmetic is binary floating point.             *)
(* SpecObjects is the library objects (height field, line strip, points,   *)
(* billboard text), their colors and the theme.  SpecDispose is a renderer *)
(* up to its disposal.  SpecPage is a page with two renderers.             *)
(***************************************************************************)
EXTENDS Integers, Sequences, FiniteSets, TLC

\* ------------------------------------------------------------ bounds ----
MaxNode  == 2    \* nodes are 0..MaxNode; node 0 is the global light
MaxFns   == 2    \* callback identities 1..MaxFns, and longest updateFns
MaxTicks == 3    \* animation frames per behaviour
MaxOps   == 3    \* API calls and resize events per behaviour
MantBits == 11   \* bits of mantissa of a number (an IEEE double has 53)
MaxGraphTicks == 1  \* animation frames per behaviour of SpecGraph

GlobalLight == 0
Nodes     == 0 .. MaxNode
UserNodes == Nodes \ {GlobalLight}      \* objects user code holds (the
                                        \* global light is a private field)
Fns       == 1 .. MaxFns
OrbitFn   == 0                           \* the callback orbit() registers
BillboardFn == -1                        \* the callback a billboard registers
Null      == << >>                       \* an object field is << >> for
                                         \* null, else <<its settings>>
Configs   == {"undefined", "config"}     \* the argument of orbit()
Zooms     == {1, 2, 7, 49}               \* whole arguments of zoom(value)
Axes      == 1 .. 3                      \* x, y, z of camera.scale
Ranges    == {<<0, 4>>, <<-3, 3>>, <<0, 1>>, <<2, 2>>, <<4, 0>>}
                                         \* the explicit ranges of graph()
Themes    == {"light", "dark"}
Segments  == {<<1, 1>>, <<1, 2>>}        \* [widthSegments, depthSegments]
HeightCounts == {4, 6}                   \* heights.length
PointCounts == {2, 3}                    \* points.length
ColorInputs ==                           \* the argument of color(color):
    {[array |-> FALSE, value |-> <<"red">>]}      \* one color, or an
    \cup {[array |-> TRUE, value |-> [i \in 1 .. n |-> "red"]] :
             n \in {2, 4}}                         \* array of colors
Funcs     == {"constant", "ofX", "nonFinite"}
                                         \* graphed functions: x => 1, one
                                         \* that is finite exactly for finite
                                         \* x, one that is never finite
TimeSteps == {16, 33}                    \* ms between two frame timestamps
Gaps      == {5000}                      \* ms without frames (hidden tab)
Contexts  == {1, 2}                      \* two renderers of one page
Sizes     == {<<800, 600>>, <<400, 300>>} \* wrapper client sizes

VARIABLES
    \* ---- Ctx
    scene,        \* children of sceneRef
    garbage,      \* Ctx.garbage
    mode,         \* Ctx.mode
    updateFns,    \* Ctx.updateFns
    camera,       \* left/right/top/bottom of Ctx.camera
    orbitControls,\* Ctx.orbitControls: Null or <<the controller's settings>>
    \* ---- Renderer
    looping,      \* setAnimationLoop has been called
    lastMs,       \* closure variable lastMs, -1 for null
    elapsedSecs,  \* closure variable elapsedSecs, in thousandths of a second
    size,         \* size given to inner.setSize
    \* ---- control
    pc,           \* "setup", "idle" (between frames), "tick" (in the for
                  \* loop of __tick), "fn" (inside an update callback)
    idx,          \* position of the for..of iterator over updateFns
    tickArgs,     \* the (dt, elapsed) parameters of the running __tick
    nowMs,        \* timestamp of the latest animation frame
    budget,       \* API calls and resize events still allowed
    \* ---- history
    tickNo,       \* number of __tick calls started
    lastSpawn,    \* per node: who spawned it last, in which mode and tick
    retained,     \* nodes that were spawned while mode was RETAINED
    removedSince, \* nodes on which remove was called since their last spawn
    shown,        \* per node: frame renders it was in since its last spawn
    lastRender,   \* kind, tick and scene of the latest render
    callLog,      \* callbacks invoked by the running / latest __tick
    sceneBefore,  \* scene when the running / latest __tick was entered
    tickRemove,   \* remove was called during the running / latest __tick
    dtLog,        \* the dt of every __tick so far, oldest first
    fnsBefore,    \* length of updateFns when the running / latest __tick was
                  \* entered
    orbitBuilt,   \* the mode at every construction of an OrbitControls
    cameraScale,  \* camera.scale: <<x, y, z>>
    zoomRet,      \* Null or <<the value the latest zoom call returned>>
    zoomArg,      \* Null or <<the value of the latest zoom(value)>>, Null
                  \* again when camera.scale is written directly
    lastGraph,    \* Null or <<outcome of the latest graph call>>
    graphEnds,    \* Null or <<x of the first and of the last value of the
                  \* latest graph that was computed>>
    theme,        \* Ctx.theme
    background,   \* sceneRef.background
    objects,      \* per node: Null or <<the fields of the library object whose
                  \* mesh the node is>>
    thrown,       \* Null or <<the error the latest object call threw>>
    observing,    \* Renderer.resizeObserver observes the wrapper
    mouseListener,\* onMouseMove of the Ctx is a listener of document.body
    wrapperParent,\* the wrapper has a parent element
    disposed,     \* Renderer.dispose() has been called
    \* ---- a page with two renderers
    ctxs,         \* per context: its scene, garbage, mode, updateFns, theme,
                  \* background and camera
    phase,        \* per context: "setup" until its setup has returned
    ticks,        \* per context: number of __tick calls
    lastOp,       \* Null or <<the latest operation, its context, and whether
                  \* it took an object from the scene of the other one>>
    view,         \* Null or <<camera and size the latest render drew with>>
    resumed       \* the running / latest __tick was the first one after the
                  \* host had suspended the animation frames

ctxVars  == <<scene, garbage, mode, updateFns, camera>>
rndVars  == <<looping, lastMs, elapsedSecs, size>>
ctlVars  == <<pc, idx, tickArgs, nowMs, budget>>
histVars == <<tickNo, lastSpawn, retained, removedSince, shown, lastRender, callLog,
              sceneBefore, tickRemove>>
clkVars  == <<dtLog, resumed, fnsBefore>>
orbVars  == <<orbitControls, orbitBuilt>>
camVars  == <<cameraScale, zoomRet, zoomArg, lastGraph, graphEnds>>
objVars  == <<theme, background, objects, thrown>>
domVars  == <<observing, mouseListener, wrapperParent, disposed>>
pageVars == <<ctxs, phase, ticks, lastOp>>
vars     == <<ctxVars, rndVars, ctlVars, histVars, clkVars, orbVars, view,
              camVars, objVars, domVars, pageVars>>

Range(s) == {s[i] : i \in 1 .. Len(s)}

\* ------------------------------------------------------ numbers --------
\* A positive number is [m, e] for m * 2^e with MantBits bits in m, zero is
\* [m |-> 0, e |-> 0]; every operation rounds its exact result to the
\* nearest such number, ties to the even m, as the arithmetic of doubles
\* does.
RECURSIVE Pow2(_)
Pow2(n) == IF n = 0 THEN 1 ELSE 2 * Pow2(n - 1)

RECURSIVE BitLen(_)
BitLen(n) == IF n = 0 THEN 0 ELSE 1 + BitLen(n \div 2)

\* n * 2^e rounded to MantBits bits
RoundTo(n, e) ==
    LET L == BitLen(n) IN
    IF n = 0 THEN [m |-> 0, e |-> 0]
    ELSE IF L <= MantBits
    THEN [m |-> n * Pow2(MantBits - L), e |-> e - (MantBits - L)]
    ELSE LET s    == L - MantBits
             q    == n \div Pow2(s)
             r    == n % Pow2(s)
             half == Pow2(s - 1)
             q1   == IF r > half \/ (r = half /\ q % 2 = 1) THEN q + 1 ELSE q
         IN IF q1 = Pow2(MantBits)
            THEN [m |-> Pow2(MantBits - 1), e |-> e + s + 1]
            ELSE [m |-> q1, e |-> e + s]

\* the number literal n
Num(n) == RoundTo(n, 0)

\* a * b
FMul(a, b) == RoundTo(a.m * b.m, a.e + b.e)

\* a / b for positive a and b
FDiv(a, b) ==
    LET q == (a.m * Pow2(MantBits)) \div b.m
        r == (a.m * Pow2(MantBits)) % b.m
        e == a.e - b.e - MantBits
    IN IF q < Pow2(MantBits)
       THEN LET q1 == IF 2 * r > b.m \/ (2 * r = b.m /\ q % 2 = 1)
                      THEN q + 1 ELSE q
            IN IF q1 = Pow2(MantBits)
               THEN [m |-> Pow2(MantBits - 1), e |-> e + 1]
               ELSE [m |-> q1, e |-> e]
       ELSE LET h  == q \div 2
                h1 == IF q % 2 = 1 /\ (r > 0 \/ h % 2 = 1) THEN h + 1 ELSE h
            IN IF h1 = Pow2(MantBits)
               THEN [m |-> Pow2(MantBits - 1), e |-> e + 2]
               ELSE [m |-> h1, e |-> e + 1]

\* a < b for positive a and b
FLess(a, b) == a.e < b.e \/ (a.e = b.e /\ a.m < b.m)

\* Math.min(a, b)
FMin(a, b) == IF FLess(b, a) THEN b ELSE a

\* Math.round(a): floor(a + 0.5), as an integer
MathRound(a) ==
    IF a.e >= 0 THEN a.m * Pow2(a.e)
    ELSE (2 * a.m + Pow2(-a.e)) \div (2 * Pow2(-a.e))

\* ------------------------------------------------- three.js scene ------
\* Object3D.add: the object is detached from its parent and pushed to children
SceneAdd(s, object) == s \cup {object}

\* Object3D.remove: spliced out when present, nothing otherwise
SceneRemove(s, object) == s \ {object}

\* ------------------------------------------------------------ Ctx ------
\* faulty variant: spawn that never records the object in garbage
spawnNeverGarbage(s, g, m, object) ==
    [scene |-> SceneAdd(s, object), garbage |-> g]

\* faulty variant: spawn that records the object in garbage in every mode
spawnAlwaysGarbage(s, g, m, object) ==
    [scene |-> SceneAdd(s, object), garbage |-> Append(g, object)]

\* spawn: sceneRef.add(object), and garbage.push(object) in IMMEDIATE mode
spawn(s, g, m, object) ==
    [scene   |-> SceneAdd(s, object),
     garbage |-> IF m = "IMMEDIATE" THEN Append(g, object) ELSE g]

\* faulty variant: remove that leaves the scene as it is
removeNothing(s, object) == s

\* remove: sceneRef.remove(object)
remove(s, object) == SceneRemove(s, object)

\* the loop of clearGarbage: every object of garbage leaves the scene
RECURSIVE RemoveAll(_, _)
RemoveAll(s, g) ==
    IF g = << >> THEN s
    ELSE RemoveAll(SceneRemove(s, Head(g)), Tail(g))

\* faulty variant: clearGarbage that empties the list without the loop
clearGarbageKeepsScene(s, g) == [scene |-> s, garbage |-> << >>]

\* faulty variant: clearGarbage that runs the loop and keeps the list
clearGarbageKeepsList(s, g) == [scene |-> RemoveAll(s, g), garbage |-> g]

\* clearGarbage: the loop, then this.garbage = []
clearGarbage(s, g) == [scene |-> RemoveAll(s, g), garbage |-> << >>]

\* faulty variant: callbacks visited from the newest to the oldest
nextFnReversed(fns, i) == fns[Len(fns) + 1 - i]

\* __tick: the element the for..of iterator yields at position i
nextFn(fns, i) == fns[i]

\* faulty variant: the for loop of __tick stops after the first callback
loopDoneEarly(fns, i) == i > 1

\* __tick: the for..of iterator over updateFns is exhausted at position i
loopDone(fns, i) == i > Len(fns)

\* faulty variant: __tick that leaves mode as it is
tickModeKept(m) == m

\* __tick: this.mode = "IMMEDIATE"
tickMode(m) == "IMMEDIATE"

\* faulty variant: orbit that takes every call for the first one
orbitFirstAlways(controls) == TRUE

\* orbit: this.orbitControls === null
orbitFirst(controls) == controls = Null

\* orbit: the settings of the controller after the call; a new controller
\* does not rotate by itself, a config switches autoRotate on
orbitConfigure(controls, first, config) ==
    IF config # "undefined" THEN <<[autoRotate |-> TRUE]>>
    ELSE IF first THEN <<[autoRotate |-> FALSE]>>
    ELSE controls

\* the arguments of zoom(value): the whole ones and 0.5
ZoomValues == {Num(v) : v \in Zooms} \cup {RoundTo(1, -1)}

\* zoom(value): camera.scale.setScalar(1 / value)
zoomSet(value) ==
    <<FDiv(Num(1), value), FDiv(Num(1), value), FDiv(Num(1), value)>>

\* zoom: 1 / Math.min(scaleX, scaleY, scaleZ)
zoomGet(sc) == FDiv(Num(1), FMin(FMin(sc[1], sc[2]), sc[3]))

\* faulty variant: a range check that lets from = to pass
rangeInvalidStrict(from, to) == from > to

\* Graph constructor: if (from >= to) throw
rangeInvalid(from, to) == from >= to

\* Graph constructor: to - from
graphSpan(range, zoom) ==
    IF range = Null THEN FMul(Num(2), FDiv(Num(5000), zoom))
    ELSE Num(range[2] - range[1])

\* Graph constructor: pointCount = Math.round((to - from) * resolution) with
\* resolution = 0.5 * ctx.zoom()
graphPointCount(range, zoom) ==
    MathRound(FMul(graphSpan(range, zoom), FMul(RoundTo(1, -1), zoom)))

\* Graph constructor: x = from + (i / pointCount) * (to - from) for i = 0 and
\* for i = pointCount; 0 / 0 is NaN, 0 / n is 0 and n / n is 1, and
\* from + (to - from) is to for the bounds there are
sampleX(i, pointCount) ==
    IF pointCount = 0 THEN "NaN" ELSE IF i = 0 THEN "from" ELSE "to"

\* Graph constructor: the x of values[0] and of values[pointCount]
graphValues(range, zoom) ==
    LET pointCount == graphPointCount(range, zoom)
    IN [first |-> sampleX(0, pointCount),
        last |-> sampleX(pointCount, pointCount)]

\* Graph constructor, as far as its outcome goes: the error thrown, the
\* number of calls of func, the number of computed values.  With an explicit
\* range the bounds are whole numbers; without one they are -+ 5000 / zoom.
\* pointCount = Math.round((to - from) * 0.5 * zoom), func is called for
\* i = 0 .. pointCount at x = from + (i / pointCount) * (to - from), which is
\* NaN when pointCount is 0; the first value that is not finite throws.
graph(func, range, zoom) ==
    LET pointCount == graphPointCount(range, zoom)
        firstFinite == \/ func = "constant"
                       \/ func = "ofX" /\ pointCount > 0
    IN IF range # Null /\ rangeInvalid(range[1], range[2])
       THEN [error |-> "range", calls |-> 0, values |-> 0]
       ELSE IF firstFinite
       THEN [error |-> "none", calls |-> pointCount + 1,
             values |-> pointCount + 1]
       ELSE [error |-> "value", calls |-> 1, values |-> 0]

\* faulty variant: colors that are those of the light theme in any theme
COLORLightOnly(t) ==
    [FOREGROUND |-> "#0a0a0a", BACKGROUND |-> "#ffffff"]

\* get COLOR: lightColors or darkColors by the theme, each made of cssColors
COLOR(t) ==
    IF t = "light"
    THEN [FOREGROUND |-> "#0a0a0a", BACKGROUND |-> "#ffffff"]
    ELSE [FOREGROUND |-> "#ffffff", BACKGROUND |-> "#0a0a0a"]

\* a color attribute with the same color at each of n vertices
Fill(n, c) == [i \in 1 .. n |-> c]

\* HeightField constructor: expectedCount
heightFieldExpected(segments) == (segments[1] + 1) * (segments[2] + 1)

\* faulty variant: a constructor that takes a heights array of any length
heightsMismatchNever(heightCount, expectedCount) == FALSE

\* HeightField constructor: if (heightCount !== expectedCount) throw
heightsMismatch(heightCount, expectedCount) == heightCount # expectedCount

\* HeightField constructor after the length test: a plane of expectedCount
\* vertices, a white material with vertexColors, color(ctx.COLOR.FOREGROUND)
heightField(segments, t) ==
    [kind |-> "HeightField",
     pointCount |-> heightFieldExpected(segments),
     material |-> [color |-> "#ffffff", vertexColors |-> TRUE],
     colors |-> Fill(heightFieldExpected(segments), COLOR(t).FOREGROUND)]

\* LineStrip constructor: a LineMaterial of the foreground color, no
\* vertex colors
lineStrip(n, t) ==
    [kind |-> "LineStrip",
     pointCount |-> n,
     material |-> [color |-> COLOR(t).FOREGROUND, vertexColors |-> FALSE],
     colors |-> << >>]

\* Points constructor: a PointsMaterial with vertexColors, whose color is
\* the white of a new material, color(ctx.COLOR.FOREGROUND)
points(n, t) ==
    [kind |-> "Points",
     pointCount |-> n,
     material |-> [color |-> "#ffffff", vertexColors |-> TRUE],
     colors |-> Fill(n, COLOR(t).FOREGROUND)]

\* faulty variant: color that takes an array of any length
colorMismatchNever(length, pointCount) == FALSE

\* color: if (color.length !== pointCount) throw
colorMismatch(length, pointCount) == length # pointCount

\* the error of color, with the message of the class
colorError(message, o, color) ==
    [thrown |-> <<[error |-> message, expected |-> o.pointCount,
                   got |-> Len(color.value)]>>,
     object |-> o]

\* LineStrip.color: an array sets the colors of the geometry and makes the
\* material white with vertexColors, one color goes to the material
lineStripColor(o, color) ==
    IF color.array
    THEN IF colorMismatch(Len(color.value), o.pointCount)
         THEN colorError("Color array length must match point count",
                         o, color)
         ELSE [thrown |-> Null,
               object |-> [o EXCEPT !.colors = color.value,
                                    !.material = [color |-> "#ffffff",
                                                  vertexColors |-> TRUE]]]
    ELSE [thrown |-> Null,
          object |-> [o EXCEPT !.material = [color |-> color.value[1],
                                             vertexColors |-> FALSE]]]

\* HeightField.color: the color attribute of the geometry is replaced
heightFieldColor(o, color) ==
    IF color.array
    THEN IF colorMismatch(Len(color.value), o.pointCount)
         THEN colorError("Color array length must match vertex count",
                         o, color)
         ELSE [thrown |-> Null, object |-> [o EXCEPT !.colors = color.value]]
    ELSE [thrown |-> Null,
          object |-> [o EXCEPT !.colors = Fill(o.pointCount, color.value[1])]]

\* Points.color: the color attribute of the geometry is replaced
pointsColor(o, color) ==
    IF color.array
    THEN IF colorMismatch(Len(color.value), o.pointCount)
         THEN colorError("Color array length mismatch", o, color)
         ELSE [thrown |-> Null, object |-> [o EXCEPT !.colors = color.value]]
    ELSE [thrown |-> Null,
          object |-> [o EXCEPT !.colors = Fill(o.pointCount, color.value[1])]]

\* object.color(color), by the class of the object
colorOf(o, color) ==
    CASE o.kind = "LineStrip" -> lineStripColor(o, color)
      [] o.kind = "HeightField" -> heightFieldColor(o, color)
      [] o.kind = "Points" -> pointsColor(o, color)

\* Graph3d constructor, with the default size: the segments [xSeg, zSeg],
\* each Math.round((100 / zoom) * (zoom * 0.1))
graph3dSegments(zoom) ==
    LET seg == MathRound(FMul(FDiv(Num(100), zoom),
                              FMul(zoom, FDiv(Num(1), Num(10)))))
    IN <<seg, seg>>

\* Graph3d constructor, as far as its outcome goes: func is called for each
\* of the xPoints * zPoints values and what it returns is stored as it is
graph3d(func, zoom) ==
    [error |-> "none",
     calls |-> heightFieldExpected(graph3dSegments(zoom)),
     values |-> heightFieldExpected(graph3dSegments(zoom))]

\* the global light of a context: each constructor makes its own
globalLightOf(c) == GlobalLight - (c - 1)

\* Ctx constructor: the fields of a new context
newCtx(c) ==
    [scene |-> SceneAdd({}, globalLightOf(c)),
     garbage |-> << >>,
     mode |-> "RETAINED",
     updateFns |-> << >>,
     theme |-> "light",
     background |-> COLOR("light").BACKGROUND,
     camera |-> [left |-> -1, right |-> 1, top |-> 1, bottom |-> -1]]

\* faulty variant: an object that leaves the scene of a context leaves its
\* garbage as well
detachedAndCollected(ctx, object) ==
    [ctx EXCEPT !.scene = SceneRemove(@, object),
                !.garbage = SelectSeq(@, LAMBDA n : n # object)]

\* Object3D.add, seen from the scene of the other context: the object is
\* taken from the parent it has
detached(ctx, object) == [ctx EXCEPT !.scene = SceneRemove(@, object)]

\* faulty variant: a billboard that registers its callback in any mode
billboardRegistersAlways(m) == TRUE

\* textBillboard: if (this.mode !== "IMMEDIATE") this.update(rotate); and
\* Text.billboard: if (this.ctxRef.__getMode() === "RETAINED")
billboardRegisters(m) == m # "IMMEDIATE"

\* Text constructor: a material of the foreground color
text(t) ==
    [kind |-> "Text",
     material |-> [color |-> COLOR(t).FOREGROUND, vertexColors |-> FALSE]]

\* faulty variant: __hasUpdateFns that answers true for an empty list
hasUpdateFnsAlways(fns) == TRUE

\* __hasUpdateFns: this.updateFns.length > 0
hasUpdateFns(fns) == Len(fns) > 0

\* faulty variant: __setCameraBounds that takes top and bottom from the width
setCameraBoundsSquare(width, height) ==
    [left   |-> -(width \div 2),  right  |-> width \div 2,
     top    |-> width \div 2,     bottom |-> -(width \div 2)]

\* __setCameraBounds: +-width * 0.5 and +-height * 0.5 (Sizes are even)
setCameraBounds(width, height) ==
    [left   |-> -(width \div 2),  right  |-> width \div 2,
     top    |-> height \div 2,    bottom |-> -(height \div 2)]

\* --------------------------------------------------------- Renderer ----
\* faulty variant: a resize callback that renders before it has set the
\* camera bounds
resizeViewStale(cam, wh) == [camera |-> cam, size |-> wh]

\* ResizeObserver callback: what inner.render draws with, after
\* ctx.__setCameraBounds(width, height) and inner.setSize(width, height)
resizeView(cam, wh) == [camera |-> setCameraBounds(wh[1], wh[2]), size |-> wh]

\* faulty variant: deltaSecs without the test for the first frame (null
\* counts as 0 in the subtraction)
deltaSecsNoNull(elapsedMs, prevMs) ==
    elapsedMs - (IF prevMs = -1 THEN 0 ELSE prevMs)

\* animation loop: deltaSecs = (elapsedMs - lastMs) / 1000 when lastMs is not
\* null, else 0.  Seconds are kept as whole thousandths, so that the division
\* of a whole number of milliseconds by 1000 is exact.
deltaSecs(elapsedMs, prevMs) ==
    IF prevMs # -1 THEN elapsedMs - prevMs ELSE 0

\* --------------------------------------------------------- callers -----
\* who is running user code
Caller == CASE pc = "setup" -> "setup"
            [] pc = "fn"    -> "callback"
            [] OTHER        -> "event"

\* the callbacks of orbit() and of a billboard are library code: they call
\* no Ctx operation
UserCode ==
    /\ pc \in {"setup", "fn", "idle"}
    /\ budget > 0
    /\ pc = "fn" => nextFn(updateFns, idx) \notin {OrbitFn, BillboardFn}

Init ==
    /\ scene = SceneAdd({}, GlobalLight)
    /\ garbage = << >>
    /\ mode = "RETAINED"
    /\ updateFns = << >>
    /\ camera = [left |-> -1, right |-> 1, top |-> 1, bottom |-> -1]
                                   \* new THREE.OrthographicCamera()
    /\ looping = FALSE
    /\ lastMs = -1
    /\ elapsedSecs = 0
    /\ size = <<300, 150>>        \* canvas size before any setSize
    /\ pc = "setup"
    /\ idx = 0
    /\ tickArgs = [dt |-> 0, elapsed |-> 0]
    /\ nowMs = 0
    /\ budget = MaxOps
    /\ tickNo = 0
    /\ lastSpawn = [n \in Nodes |->
                      IF n = GlobalLight
                      THEN [by |-> "ctor", mode |-> "RETAINED", tick |-> 0]
                      ELSE [by |-> "none", mode |-> "RETAINED", tick |-> 0]]
    /\ retained = {GlobalLight}
    /\ removedSince = {}
    /\ shown = [n \in Nodes |-> 0]
    /\ lastRender = [kind |-> "none", tick |-> 0, scene |-> {}]
    /\ callLog = << >>
    /\ sceneBefore = {}
    /\ tickRemove = FALSE
    /\ dtLog = << >>
    /\ resumed = FALSE
    /\ fnsBefore = 0
    /\ orbitControls = Null
    /\ orbitBuilt = << >>
    /\ view = Null
    /\ cameraScale = <<Num(1), Num(1), Num(1)>>   \* Object3D.scale
    /\ zoomRet = Null
    /\ zoomArg = Null
    /\ lastGraph = Null
    /\ graphEnds = Null
    /\ theme = "light"
    /\ background = COLOR("light").BACKGROUND   \* this.background(...)
    /\ objects = [n \in UserNodes |-> Null]
    /\ thrown = Null
    /\ observing = FALSE
    /\ mouseListener = TRUE     \* document.body.addEventListener(...)
    /\ wrapperParent = FALSE
    /\ disposed = FALSE
    /\ ctxs = [c \in Contexts |-> newCtx(c)]
    /\ phase = [c \in Contexts |-> "setup"]
    /\ ticks = [c \in Contexts |-> 0]
    /\ lastOp = Null

\* ctx.spawn(object), from setup, an update callback or a DOM event handler
Spawn(object) ==
    /\ UserCode
    /\ scene' = spawn(scene, garbage, mode, object).scene
    /\ garbage' = spawn(scene, garbage, mode, object).garbage
    /\ UNCHANGED <<mode, updateFns, camera>>
    /\ UNCHANGED rndVars
    /\ budget' = budget - 1
    /\ UNCHANGED <<pc, idx, tickArgs, nowMs>>
    /\ lastSpawn' = [lastSpawn EXCEPT ![object] =
                       [by |-> Caller, mode |-> mode, tick |-> tickNo]]
    /\ retained' = IF mode = "RETAINED" THEN retained \cup {object}
                   ELSE retained
    /\ removedSince' = removedSince \ {object}
    /\ shown' = [shown EXCEPT ![object] = 0]
    /\ UNCHANGED <<tickNo, lastRender, callLog, sceneBefore, tickRemove>>
    /\ UNCHANGED clkVars
    /\ UNCHANGED orbVars
    /\ UNCHANGED view
    /\ UNCHANGED camVars
    /\ UNCHANGED objVars
    /\ UNCHANGED domVars
    /\ UNCHANGED pageVars

\* ctx.remove(object)
Remove(object) ==
    /\ UserCode
    /\ scene' = remove(scene, object)
    /\ UNCHANGED <<garbage, mode, updateFns, camera>>
    /\ UNCHANGED rndVars
    /\ budget' = budget - 1
    /\ UNCHANGED <<pc, idx, tickArgs, nowMs>>
    /\ removedSince' = removedSince \cup {object}
    /\ tickRemove' = (tickRemove \/ pc = "fn")
    /\ UNCHANGED <<tickNo, lastSpawn, retained, shown, lastRender, callLog,
                   sceneBefore>>
    /\ UNCHANGED clkVars
    /\ UNCHANGED orbVars
    /\ UNCHANGED view
    /\ UNCHANGED camVars
    /\ UNCHANGED objVars
    /\ UNCHANGED domVars
    /\ UNCHANGED pageVars

\* ctx.update(fn)
Update(fn) ==
    /\ UserCode
    /\ Len(updateFns) < MaxFns
    /\ updateFns' = Append(updateFns, fn)
    /\ UNCHANGED <<scene, garbage, mode, camera>>
    /\ UNCHANGED rndVars
    /\ budget' = budget - 1
    /\ UNCHANGED <<pc, idx, tickArgs, nowMs>>
    /\ UNCHANGED histVars
    /\ UNCHANGED clkVars
    /\ UNCHANGED orbVars
    /\ UNCHANGED view
    /\ UNCHANGED camVars
    /\ UNCHANGED objVars
    /\ UNCHANGED domVars
    /\ UNCHANGED pageVars

\* ctx.orbit(config)
Orbit(config) ==
    /\ UserCode
    /\ LET first == orbitFirst(orbitControls)
       IN /\ orbitBuilt' = (IF first THEN Append(orbitBuilt, mode)
                            ELSE orbitBuilt)
          /\ updateFns' = (IF first /\ mode # "IMMEDIATE"
                           THEN Append(updateFns, OrbitFn) ELSE updateFns)
          /\ orbitControls' = orbitConfigure(orbitControls, first, config)
    /\ UNCHANGED <<scene, garbage, mode, camera>>
    /\ UNCHANGED rndVars
    /\ budget' = budget - 1
    /\ UNCHANGED <<pc, idx, tickArgs, nowMs>>
    /\ UNCHANGED histVars
    /\ UNCHANGED clkVars
    /\ UNCHANGED view
    /\ UNCHANGED camVars
    /\ UNCHANGED objVars
    /\ UNCHANGED domVars
    /\ UNCHANGED pageVars

\* what a user call that touches only the camera leaves alone
CameraCall ==
    /\ UserCode
    /\ budget' = budget - 1
    /\ UNCHANGED ctxVars
    /\ UNCHANGED rndVars
    /\ UNCHANGED <<pc, idx, tickArgs, nowMs>>
    /\ UNCHANGED histVars
    /\ UNCHANGED clkVars
    /\ UNCHANGED orbVars
    /\ UNCHANGED <<view, lastGraph, graphEnds>>
    /\ UNCHANGED objVars
    /\ UNCHANGED domVars
    /\ UNCHANGED pageVars

\* ctx.zoom(value)
Zoom(value) ==
    /\ CameraCall
    /\ cameraScale' = zoomSet(value)
    /\ zoomRet' = <<zoomGet(zoomSet(value))>>
    /\ zoomArg' = <<value>>

\* ctx.zoom()
ZoomGet ==
    /\ CameraCall
    /\ zoomRet' = <<zoomGet(cameraScale)>>
    /\ UNCHANGED <<cameraScale, zoomArg>>

\* user code writes one axis of ctx.camera.scale
SetScale(axis, value) ==
    /\ CameraCall
    /\ cameraScale' = [cameraScale EXCEPT ![axis] = Num(value)]
    /\ zoomArg' = Null
    /\ UNCHANGED zoomRet

\* ctx.graph(func, range): new Graph(this, func, range); the line strip of a
\* graph that was computed is a new object, spawned by its constructor
Graph(func, range) ==
    /\ UserCode
    /\ LET g == graph(func, range, zoomGet(cameraScale))
       IN /\ lastGraph' = <<g>>
          /\ graphEnds' = IF g.error = "none"
                          THEN <<graphValues(range, zoomGet(cameraScale))>>
                          ELSE graphEnds
          /\ IF g.error = "none"
             THEN \E object \in UserNodes :
                    /\ lastSpawn[object].by = "none"
                    /\ scene' = spawn(scene, garbage, mode, object).scene
                    /\ garbage' = spawn(scene, garbage, mode, object).garbage
                    /\ lastSpawn' = [lastSpawn EXCEPT ![object] =
                          [by |-> Caller, mode |-> mode, tick |-> tickNo]]
                    /\ retained' = IF mode = "RETAINED"
                                   THEN retained \cup {object} ELSE retained
             ELSE UNCHANGED <<scene, garbage, lastSpawn, retained>>
    /\ UNCHANGED <<mode, updateFns, camera>>
    /\ UNCHANGED rndVars
    /\ budget' = budget - 1
    /\ UNCHANGED <<pc, idx, tickArgs, nowMs>>
    /\ UNCHANGED <<tickNo, removedSince, shown, lastRender, callLog,
                   sceneBefore, tickRemove>>
    /\ UNCHANGED clkVars
    /\ UNCHANGED orbVars
    /\ UNCHANGED <<view, cameraScale, zoomRet, zoomArg>>
    /\ UNCHANGED objVars
    /\ UNCHANGED domVars
    /\ UNCHANGED pageVars

\* what a call on a library object, or of a factory, leaves alone
ObjectCall ==
    /\ UserCode
    /\ budget' = budget - 1
    /\ UNCHANGED <<mode, updateFns, camera>>
    /\ UNCHANGED rndVars
    /\ UNCHANGED <<pc, idx, tickArgs, nowMs>>
    /\ UNCHANGED <<tickNo, removedSince, shown, lastRender, callLog,
                   sceneBefore, tickRemove>>
    /\ UNCHANGED clkVars
    /\ UNCHANGED orbVars
    /\ UNCHANGED view
    /\ UNCHANGED <<cameraScale, zoomRet, zoomArg, graphEnds>>
    /\ UNCHANGED domVars
    /\ UNCHANGED pageVars

\* ctx.spawn(this.mesh) at the end of a constructor: the mesh is a new node
SpawnNew(object, fields) ==
    /\ lastSpawn[object].by = "none"
    /\ scene' = spawn(scene, garbage, mode, object).scene
    /\ garbage' = spawn(scene, garbage, mode, object).garbage
    /\ lastSpawn' = [lastSpawn EXCEPT ![object] =
                       [by |-> Caller, mode |-> mode, tick |-> tickNo]]
    /\ retained' = IF mode = "RETAINED" THEN retained \cup {object}
                   ELSE retained
    /\ objects' = [objects EXCEPT ![object] = <<fields>>]

\* ctx.heightField(size, segments, heights): new HeightField(...)
HeightField(segments, heightCount) ==
    /\ ObjectCall
    /\ IF heightsMismatch(heightCount, heightFieldExpected(segments))
       THEN /\ thrown' = <<[error |-> "Heights array length mismatch",
                            expected |-> heightFieldExpected(segments),
                            got |-> heightCount]>>
            /\ UNCHANGED <<scene, garbage, lastSpawn, retained, objects>>
       ELSE /\ \E object \in UserNodes :
                   SpawnNew(object, heightField(segments, theme))
            /\ thrown' = Null
    /\ UNCHANGED <<theme, background, lastGraph>>

\* ctx.lineStrip(points): new LineStrip(this, points)
LineStrip(n) ==
    /\ ObjectCall
    /\ \E object \in UserNodes : SpawnNew(object, lineStrip(n, theme))
    /\ thrown' = Null
    /\ UNCHANGED <<theme, background, lastGraph>>

\* ctx.points(points): new Points(this, points)
Points(n) ==
    /\ ObjectCall
    /\ \E object \in UserNodes : SpawnNew(object, points(n, theme))
    /\ thrown' = Null
    /\ UNCHANGED <<theme, background, lastGraph>>

\* object.color(color) on an object made earlier
Color(object, color) ==
    /\ ObjectCall
    /\ objects[object] # Null
    /\ objects[object][1].kind \in {"LineStrip", "HeightField", "Points"}
    /\ objects' = [objects EXCEPT
                     ![object] = <<colorOf(objects[object][1], color).object>>]
    /\ thrown' = colorOf(objects[object][1], color).thrown
    /\ UNCHANGED <<scene, garbage, lastSpawn, retained>>
    /\ UNCHANGED <<theme, background, lastGraph>>

\* ctx.graph3d(func): new Graph3d(this, func).  The height field of the
\* values is made by ctx.heightField, which spawns its mesh; the mesh is then
\* added to a new group, which takes it out of the scene, and the group is
\* spawned.
Graph3d(func) ==
    /\ ObjectCall
    /\ lastGraph' = <<graph3d(func, zoomGet(cameraScale))>>
    /\ \E surface \in UserNodes, group \in UserNodes :
          LET hf == spawn(scene, garbage, mode, surface)
              gr == spawn(SceneRemove(hf.scene, surface), hf.garbage, mode,
                          group)
              by == [by |-> Caller, mode |-> mode, tick |-> tickNo]
          IN /\ surface # group
             /\ lastSpawn[surface].by = "none"
             /\ lastSpawn[group].by = "none"
             /\ scene' = gr.scene
             /\ garbage' = gr.garbage
             /\ lastSpawn' = [lastSpawn EXCEPT ![surface] = by, ![group] = by]
             /\ retained' = IF mode = "RETAINED"
                            THEN retained \cup {surface, group} ELSE retained
             /\ objects' = [objects EXCEPT
                  ![surface] = <<heightField(
                                  graph3dSegments(zoomGet(cameraScale)),
                                  theme)>>,
                  ![group] = <<[kind |-> "Graph3d", surface |-> surface]>>]
    /\ thrown' = Null
    /\ UNCHANGED <<theme, background>>

\* ctx.setTheme(theme): this.theme = theme; this.background(COLOR.BACKGROUND)
SetTheme(t) ==
    /\ ObjectCall
    /\ theme' = t
    /\ background' = COLOR(t).BACKGROUND
    /\ UNCHANGED <<scene, garbage, lastSpawn, retained>>
    /\ UNCHANGED <<objects, thrown, lastGraph>>

\* the page adds renderer.element() to the document
Attach ==
    /\ pc = "idle"
    /\ ~wrapperParent
    /\ ~disposed
    /\ wrapperParent' = TRUE
    /\ UNCHANGED <<observing, mouseListener, disposed>>
    /\ UNCHANGED <<ctxVars, rndVars, ctlVars, histVars, clkVars, orbVars,
                   view, camVars, objVars>>
    /\ UNCHANGED pageVars

\* renderer.dispose(): inner.dispose() stops the animation loop, the resize
\* observer is disconnected, the wrapper is taken out of its parent
Dispose ==
    /\ pc = "idle"
    /\ ~disposed
    /\ disposed' = TRUE
    /\ looping' = FALSE
    /\ observing' = FALSE
    /\ wrapperParent' = FALSE
    /\ UNCHANGED mouseListener
    /\ UNCHANGED <<lastMs, elapsedSecs, size>>
    /\ UNCHANGED <<ctxVars, ctlVars, histVars, clkVars, orbVars, view,
                   camVars, objVars>>
    /\ UNCHANGED pageVars

\* what an operation of the page with two renderers leaves alone, and what
\* it records
PageOp(c, name, took) ==
    /\ lastOp' = <<[ctx |-> c, op |-> name, took |-> took]>>
    /\ UNCHANGED <<ctxVars, rndVars, histVars, clkVars, orbVars, view,
                   camVars, objVars, domVars>>
    /\ UNCHANGED <<pc, idx, tickArgs, nowMs>>

\* user code of the page calls an operation of context c
PageCall(c, name, took) ==
    /\ budget > 0
    /\ budget' = budget - 1
    /\ PageOp(c, name, took)
    /\ UNCHANGED <<phase, ticks>>

\* ctx.spawn(object) of context c; the object may be a child of the other
\* scene
CtxSpawn(c, object) ==
    LET s == spawn(ctxs[c].scene, ctxs[c].garbage, ctxs[c].mode, object)
    IN /\ PageCall(c, "spawn",
                   \E d \in Contexts \ {c} : object \in ctxs[d].scene)
       /\ ctxs' = [d \in Contexts |->
                     IF d = c
                     THEN [ctxs[c] EXCEPT !.scene = s.scene,
                                          !.garbage = s.garbage]
                     ELSE detached(ctxs[d], object)]

\* ctx.remove(object) of context c
CtxRemove(c, object) ==
    /\ PageCall(c, "remove", FALSE)
    /\ ctxs' = [ctxs EXCEPT ![c].scene = remove(@, object)]

\* ctx.update(fn) of context c
CtxUpdate(c, fn) ==
    /\ Len(ctxs[c].updateFns) < MaxFns
    /\ PageCall(c, "update", FALSE)
    /\ ctxs' = [ctxs EXCEPT ![c].updateFns = Append(@, fn)]

\* ctx.setTheme(theme) of context c
CtxSetTheme(c, t) ==
    /\ PageCall(c, "setTheme", FALSE)
    /\ ctxs' = [ctxs EXCEPT ![c].theme = t,
                            ![c].background = COLOR(t).BACKGROUND]

\* the setup of context c returns
CtxSetupDone(c) ==
    /\ phase[c] = "setup"
    /\ phase' = [phase EXCEPT ![c] = "idle"]
    /\ PageOp(c, "setup", FALSE)
    /\ UNCHANGED <<ctxs, ticks, budget>>

\* the ResizeObserver callback of the renderer of context c
CtxResize(c, wh) ==
    /\ phase[c] = "idle"
    /\ PageCall(c, "resize", FALSE)
    /\ ctxs' = [ctxs EXCEPT ![c].camera = setCameraBounds(wh[1], wh[2])]

\* the animation loop of the renderer of context c calls __tick: the garbage
\* is cleared and the mode set; what the callbacks call are the operations
\* that follow
CtxTick(c) ==
    /\ phase[c] = "idle"
    /\ hasUpdateFns(ctxs[c].updateFns)
    /\ ticks[c] < MaxGraphTicks
    /\ ticks' = [ticks EXCEPT ![c] = @ + 1]
    /\ ctxs' = [ctxs EXCEPT
                  ![c].scene = clearGarbage(ctxs[c].scene,
                                            ctxs[c].garbage).scene,
                  ![c].garbage = clearGarbage(ctxs[c].scene,
                                              ctxs[c].garbage).garbage,
                  ![c].mode = tickMode(ctxs[c].mode)]
    /\ PageOp(c, "tick", FALSE)
    /\ UNCHANGED <<phase, budget>>

\* an operation on context c
OnCtx(c) ==
    \/ \E object \in UserNodes : CtxSpawn(c, object)
    \/ \E object \in UserNodes : CtxRemove(c, object)
    \/ \E fn \in Fns : CtxUpdate(c, fn)
    \/ \E t \in Themes : CtxSetTheme(c, t)
    \/ CtxSetupDone(c)
    \/ \E wh \in Sizes : CtxResize(c, wh)
    \/ CtxTick(c)

\* ctx.textBillboard(value), or ctx.text(value).billboard(): the text is
\* made and spawned, then rotate is registered or called once
TextBillboard ==
    /\ UserCode
    /\ budget' = budget - 1
    /\ \E object \in UserNodes : SpawnNew(object, text(theme))
    /\ updateFns' = IF billboardRegisters(mode)
                    THEN Append(updateFns, BillboardFn) ELSE updateFns
    /\ thrown' = Null
    /\ UNCHANGED <<mode, camera>>
    /\ UNCHANGED rndVars
    /\ UNCHANGED <<pc, idx, tickArgs, nowMs>>
    /\ UNCHANGED <<tickNo, removedSince, shown, lastRender, callLog,
                   sceneBefore, tickRemove>>
    /\ UNCHANGED clkVars
    /\ UNCHANGED orbVars
    /\ UNCHANGED view
    /\ UNCHANGED camVars
    /\ UNCHANGED <<theme, background>>
    /\ UNCHANGED domVars
    /\ UNCHANGED pageVars

\* Renderer constructor after setup(ctx): the loop is set up only when
\* ctx.__hasUpdateFns()
SetupDone ==
    /\ pc = "setup"
    /\ pc' = "idle"
    /\ looping' = hasUpdateFns(updateFns)
    /\ UNCHANGED ctxVars
    /\ UNCHANGED <<lastMs, elapsedSecs, size>>
    /\ UNCHANGED <<idx, tickArgs, nowMs, budget>>
    /\ UNCHANGED histVars
    /\ UNCHANGED clkVars
    /\ UNCHANGED orbVars
    /\ UNCHANGED view
    /\ UNCHANGED camVars
    /\ UNCHANGED objVars
    /\ observing' = TRUE         \* this.resizeObserver.observe(this.wrapper)
    /\ UNCHANGED <<mouseListener, wrapperParent, disposed>>
    /\ UNCHANGED pageVars

\* the ResizeObserver callback
Resize(wh) ==
    /\ pc = "idle"
    /\ observing
    /\ budget > 0
    /\ camera' = setCameraBounds(wh[1], wh[2])
    /\ size' = wh
    /\ lastRender' = [kind |-> "resize", tick |-> tickNo, scene |-> scene]
    /\ budget' = budget - 1
    /\ UNCHANGED <<scene, garbage, mode, updateFns>>
    /\ UNCHANGED <<looping, lastMs, elapsedSecs>>
    /\ UNCHANGED <<pc, idx, tickArgs, nowMs>>
    /\ UNCHANGED <<tickNo, lastSpawn, retained, removedSince, shown, callLog,
                   sceneBefore, tickRemove>>
    /\ UNCHANGED clkVars
    /\ UNCHANGED orbVars
    /\ view' = <<resizeView(camera, wh)>>
    /\ UNCHANGED camVars
    /\ UNCHANGED objVars
    /\ UNCHANGED domVars
    /\ UNCHANGED pageVars

\* the animation-loop callback up to the for loop of __tick; afterPause
\* tells that the host had delivered no frame for a while before this one
FrameStep(step, afterPause) ==
    /\ pc = "idle"
    /\ looping
    /\ tickNo < MaxTicks
    /\ afterPause => (budget > 0 /\ tickNo >= 1)
    /\ LET elapsedMs == nowMs + step
           dt == deltaSecs(elapsedMs, lastMs)
       IN /\ nowMs' = elapsedMs
          /\ elapsedSecs' = elapsedSecs + dt
          /\ lastMs' = elapsedMs
          /\ tickArgs' = [dt |-> dt, elapsed |-> elapsedSecs + dt]
          /\ dtLog' = Append(dtLog, dt)
    /\ scene' = clearGarbage(scene, garbage).scene
    /\ garbage' = clearGarbage(scene, garbage).garbage
    /\ mode' = tickMode(mode)
    /\ pc' = "tick"
    /\ idx' = 1
    /\ tickNo' = tickNo + 1
    /\ callLog' = << >>
    /\ sceneBefore' = scene
    /\ tickRemove' = FALSE
    /\ resumed' = afterPause
    /\ fnsBefore' = Len(updateFns)
    /\ budget' = (IF afterPause THEN budget - 1 ELSE budget)
    /\ UNCHANGED <<updateFns, camera, looping, size>>
    /\ UNCHANGED <<lastSpawn, retained, removedSince, shown, lastRender>>
    /\ UNCHANGED orbVars
    /\ UNCHANGED view
    /\ UNCHANGED camVars
    /\ UNCHANGED objVars
    /\ UNCHANGED domVars
    /\ UNCHANGED pageVars

\* an animation frame that follows the previous one at the display's rate
Frame(step) == FrameStep(step, FALSE)

\* the first animation frame after the host had stopped delivering frames
\* (hidden tab): the same callback, its timestamp further ahead
ResumeFrame(gap) == FrameStep(gap, TRUE)

\* one iteration of for (const fn of this.updateFns): fn(dt, elapsed)
CallFn ==
    /\ pc = "tick"
    /\ ~loopDone(updateFns, idx)
    /\ pc' = "fn"
    /\ callLog' = Append(callLog, [fn |-> nextFn(updateFns, idx), dt |-> tickArgs.dt,
                                   elapsed |-> tickArgs.elapsed])
    /\ UNCHANGED ctxVars
    /\ UNCHANGED rndVars
    /\ UNCHANGED <<idx, tickArgs, nowMs, budget>>
    /\ UNCHANGED <<tickNo, lastSpawn, retained, removedSince, shown,
                   lastRender, sceneBefore, tickRemove>>
    /\ UNCHANGED clkVars
    /\ UNCHANGED orbVars
    /\ UNCHANGED view
    /\ UNCHANGED camVars
    /\ UNCHANGED objVars
    /\ UNCHANGED domVars
    /\ UNCHANGED pageVars

\* the callback returns and the iterator advances
FnReturn ==
    /\ pc = "fn"
    /\ pc' = "tick"
    /\ idx' = idx + 1
    /\ UNCHANGED ctxVars
    /\ UNCHANGED rndVars
    /\ UNCHANGED <<tickArgs, nowMs, budget>>
    /\ UNCHANGED histVars
    /\ UNCHANGED clkVars
    /\ UNCHANGED orbVars
    /\ UNCHANGED view
    /\ UNCHANGED camVars
    /\ UNCHANGED objVars
    /\ UNCHANGED domVars
    /\ UNCHANGED pageVars

\* __tick has returned: this.inner.render(scene, ctx.camera)
Render ==
    /\ pc = "tick"
    /\ loopDone(updateFns, idx)
    /\ pc' = "idle"
    /\ lastRender' = [kind |-> "frame", tick |-> tickNo, scene |-> scene]
    /\ shown' = [n \in Nodes |->
                   IF n \in scene /\ shown[n] < 2 THEN shown[n] + 1
                   ELSE shown[n]]
    /\ UNCHANGED ctxVars
    /\ UNCHANGED rndVars
    /\ UNCHANGED <<idx, tickArgs, nowMs, budget>>
    /\ UNCHANGED <<tickNo, lastSpawn, retained, removedSince, callLog,
                   sceneBefore, tickRemove>>
    /\ UNCHANGED clkVars
    /\ UNCHANGED orbVars
    /\ view' = <<[camera |-> camera, size |-> size]>>
    /\ UNCHANGED camVars
    /\ UNCHANGED objVars
    /\ UNCHANGED domVars
    /\ UNCHANGED pageVars

Next ==
    \/ \E object \in UserNodes : Spawn(object)
    \/ \E object \in UserNodes : Remove(object)
    \/ \E fn \in Fns : Update(fn)
    \/ \E config \in Configs : Orbit(config)
    \/ SetupDone
    \/ \E wh \in Sizes : Resize(wh)
    \/ \E step \in TimeSteps : Frame(step)
    \/ \E gap \in Gaps : ResumeFrame(gap)
    \/ CallFn
    \/ FnReturn
    \/ Render

Spec == Init /\ [][Next]_vars

\* the camera and the graph factory, in setup, in update callbacks and in
\* DOM event handlers; one callback, one frame rate and MaxGraphTicks frames
\* are enough to bring user code into every mode
NextGraph ==
    \/ \E value \in ZoomValues : Zoom(value)
    \/ ZoomGet
    \/ \E axis \in Axes : SetScale(axis, 2)
    \/ \E func \in Funcs, range \in Ranges \cup {Null} : Graph(func, range)
    \/ \E func \in Funcs : Graph3d(func)
    \/ updateFns = << >> /\ Update(1)
    \/ SetupDone
    \/ tickNo < MaxGraphTicks /\ Frame(16)
    \/ CallFn
    \/ FnReturn
    \/ Render

SpecGraph == Init /\ [][NextGraph]_vars

\* the library objects, made and used in setup, in update callbacks and in
\* DOM event handlers
NextObjects ==
    \/ \E segments \in Segments, heightCount \in HeightCounts :
          HeightField(segments, heightCount)
    \/ \E n \in PointCounts : LineStrip(n)
    \/ \E n \in PointCounts : Points(n)
    \/ \E object \in UserNodes, color \in ColorInputs : Color(object, color)
    \/ \E t \in Themes : SetTheme(t)
    \/ TextBillboard
    \/ \E config \in Configs : Orbit(config)
    \/ updateFns = << >> /\ Update(1)
    \/ SetupDone
    \/ tickNo < MaxGraphTicks /\ Frame(16)
    \/ CallFn
    \/ FnReturn
    \/ Render

SpecObjects == Init /\ [][NextObjects]_vars

\* a renderer from its construction to its disposal
NextDispose ==
    \/ \E object \in UserNodes : Spawn(object)
    \/ \E fn \in Fns : Update(fn)
    \/ SetupDone
    \/ Attach
    \/ \E wh \in Sizes : Resize(wh)
    \/ \E step \in TimeSteps : Frame(step)
    \/ CallFn
    \/ FnReturn
    \/ Render
    \/ Dispose

SpecDispose == Init /\ [][NextDispose]_vars

\* two renderers of one page, each with its context
NextPage == \E c \in Contexts : OnCtx(c)

SpecPage == Init /\ [][NextPage]_vars

TypeOK ==
    /\ scene \subseteq Nodes
    /\ Range(garbage) \subseteq Nodes
    /\ mode \in {"RETAINED", "IMMEDIATE"}
    /\ Range(updateFns) \subseteq Fns \cup {OrbitFn, BillboardFn}
    /\ orbitControls \in {Null} \cup {<<c>> : c \in [autoRotate : BOOLEAN]}
    /\ pc \in {"setup", "idle", "tick", "fn"}
    /\ budget \in 0 .. MaxOps
    /\ tickNo \in 0 .. MaxTicks

\* ------------------------------------------------------------------------
\* C1  Immediate-mode one-frame rule: a node whose latest spawn was made by
\* an update callback during tick N, with no remove since, is in the scene
\* at every render made for frame N, and a node whose latest spawn was made
\* by a callback of an earlier tick is in the scene at no render of a later
\* frame.
OneFrameRule ==
    \A x \in Nodes :
        (lastRender.kind # "none" /\ lastSpawn[x].by = "callback") =>
            /\ (lastSpawn[x].tick = lastRender.tick /\ x \notin removedSince)
                    => x \in lastRender.scene
            /\ lastSpawn[x].tick < lastRender.tick
                    => x \notin lastRender.scene

\* frame N + 1 was rendered without a node that a callback spawned in tick N
\* and that frame N's render had shown
OneFrameRuleWitness ==
    \E x \in Nodes :
        /\ lastSpawn[x].by = "callback"
        /\ lastRender.kind = "frame"
        /\ lastRender.tick = lastSpawn[x].tick + 1
        /\ shown[x] = 1
        /\ x \notin removedSince
        /\ x \notin lastRender.scene

\* ------------------------------------------------------------------------
\* C2 as stated: every node that was spawned while mode was RETAINED is
\* never in garbage and is in the scene as long as remove was not called on
\* it.
RetainedPersistenceAsStated ==
    \A x \in retained :
        x \notin removedSince => (x \in scene /\ x \notin Range(garbage))

\* C2 amended: a node whose latest spawn was made while mode was RETAINED
\* (it was not spawned again in IMMEDIATE mode) is never in garbage and is in
\* the scene, after any number of ticks, as long as remove was not called on
\* it since.
RetainedPersistence ==
    \A x \in Nodes :
        (lastSpawn[x].by # "none" /\ lastSpawn[x].mode = "RETAINED"
            /\ x \notin removedSince)
        => (x \in scene /\ x \notin Range(garbage))

\* a node that setup spawned is still in the scene after two frames
RetainedPersistenceWitness ==
    \E x \in Nodes \ {GlobalLight} :
        /\ lastSpawn[x].by = "setup"
        /\ x \notin removedSince
        /\ tickNo >= 2
        /\ lastRender.kind = "frame"
        /\ lastRender.tick = tickNo
        /\ x \in lastRender.scene

\* ------------------------------------------------------------------------
\* C3  The step that enters __tick empties garbage and takes every node that
\* was in garbage out of the scene before the first callback is called, and
\* while the callbacks of a tick run garbage holds only nodes that callbacks
\* of this very tick spawned.
GarbageClearedFirst ==
    /\ [][(pc = "idle" /\ pc' = "tick")
            => (/\ garbage' = << >>
                /\ idx' = 1
                /\ callLog' = << >>
                /\ \A x \in Range(garbage) : x \notin scene')]_vars
    /\ [](pc \in {"tick", "fn"}
            => \A i \in 1 .. Len(garbage) :
                  /\ lastSpawn[garbage[i]].by = "callback"
                  /\ lastSpawn[garbage[i]].tick = tickNo)

\* a tick was entered with a node in garbage: before the first callback the
\* node is out of the scene and garbage is empty
GarbageClearedFirstWitness ==
    /\ pc = "tick"
    /\ idx = 1
    /\ callLog = << >>
    /\ Len(updateFns) >= 1
    /\ garbage = << >>
    /\ sceneBefore # scene

\* ------------------------------------------------------------------------
\* C4  While a tick runs, the callbacks called so far are the first entries
\* of updateFns in registration order, none skipped, each called with the
\* (dt, elapsed) pair of this tick; when the loop is left every registered
\* callback has been called.
CallOrder ==
    pc \in {"tick", "fn"} =>
        /\ Len(callLog) = (IF pc = "fn" THEN idx ELSE idx - 1)
        /\ Len(callLog) <= Len(updateFns)
        /\ \A i \in 1 .. Len(callLog) :
              callLog[i] = [fn |-> updateFns[i], dt |-> tickArgs.dt,
                            elapsed |-> elapsedSecs]
        /\ tickArgs.elapsed = elapsedSecs
        /\ (idx > Len(updateFns) => Len(callLog) = Len(updateFns))

\* two different callbacks were called in their registration order in a
\* frame with a non-zero dt
CallOrderWitness ==
    /\ pc = "tick"
    /\ idx > Len(updateFns)
    /\ Len(callLog) = 2
    /\ callLog[1].fn = 2
    /\ callLog[2].fn = 1
    /\ tickArgs.dt > 0

\* ------------------------------------------------------------------------
\* C5 as stated: a node whose latest spawn was made in IMMEDIATE mode, by a
\* callback or by a DOM event handler between two frames, and that was not
\* removed, has been in exactly one frame render once the next tick has
\* begun.
ImmediateVisibilityAsStated ==
    \A x \in Nodes :
        (lastSpawn[x].mode = "IMMEDIATE" /\ x \notin removedSince
            /\ lastSpawn[x].tick < tickNo)
        => shown[x] = 1

\* C5 amended: a node whose latest spawn was made by an update callback and
\* that was not removed is in exactly one frame render, the one of that
\* tick, and in no later one; a node whose latest spawn was made in
\* IMMEDIATE mode by a DOM event handler between two frames is in no frame
\* render at all.
ImmediateVisibility ==
    \A x \in Nodes :
        (lastSpawn[x].mode = "IMMEDIATE" /\ x \notin removedSince) =>
            /\ lastSpawn[x].by = "event" => shown[x] = 0
            /\ lastSpawn[x].by = "callback" =>
                  shown[x] = (IF lastSpawn[x].tick = tickNo
                                 /\ pc \in {"tick", "fn"}
                              THEN 0 ELSE 1)

\* a later frame was rendered after a handler spawned a node in IMMEDIATE
\* mode and after a callback spawned another one: the first was never
\* rendered, the second once
ImmediateVisibilityWitness ==
    \E x, y \in Nodes :
        /\ lastSpawn[x].by = "event"
        /\ lastSpawn[x].mode = "IMMEDIATE"
        /\ lastSpawn[y].by = "callback"
        /\ lastSpawn[x].tick < tickNo
        /\ lastSpawn[y].tick < tickNo
        /\ {x, y} \cap removedSince = {}
        /\ lastRender.kind = "frame"
        /\ lastRender.tick = tickNo
        /\ shown[x] = 0
        /\ shown[y] = 1

\* ------------------------------------------------------------------------
\* nodes whose latest spawn was made in RETAINED mode, not removed since
RetainedNodes ==
    {x \in Nodes : /\ lastSpawn[x].by # "none"
                   /\ lastSpawn[x].mode = "RETAINED"
                   /\ x \notin removedSince}

\* nodes whose latest spawn was made by a callback of the most recent tick
TickNodes ==
    {x \in Nodes : /\ lastSpawn[x].by = "callback"
                   /\ lastSpawn[x].tick = tickNo}

\* nodes spawned in IMMEDIATE mode since the latest garbage clear
ImmediateNodes ==
    {x \in Nodes : /\ lastSpawn[x].mode = "IMMEDIATE"
                   /\ lastSpawn[x].tick = tickNo}

\* a step that renders: the animation loop or the resize observer
AnyRender == Render \/ \E wh \in Sizes : Resize(wh)

\* C6 as stated: at every render the scene is exactly the retained nodes not
\* removed plus the nodes spawned during the most recent tick (and not
\* removed), and garbage holds exactly the nodes spawned in IMMEDIATE mode
\* since the latest garbage clear.
BoundedSceneAsStated ==
    [][AnyRender =>
        /\ scene = RetainedNodes \cup (TickNodes \ removedSince)
        /\ Range(garbage) = ImmediateNodes]_vars

\* C6 amended: at every render the scene is exactly the retained nodes not
\* removed plus the nodes spawned in IMMEDIATE mode since the start of the
\* most recent tick (by its callbacks or by DOM event handlers after it) and
\* not removed; garbage holds exactly the nodes spawned in IMMEDIATE mode
\* since the latest garbage clear; at a render of the animation loop these
\* are the nodes the callbacks of that tick spawned; the scene never holds
\* more nodes than the retained ones plus one per spawn call since the
\* start of the most recent tick.
BoundedScene ==
    [][AnyRender =>
        /\ scene = RetainedNodes \cup (ImmediateNodes \ removedSince)
        /\ Range(garbage) = ImmediateNodes
        /\ Render => ImmediateNodes = TickNodes
        /\ Cardinality(scene) <= Cardinality(RetainedNodes) + Len(garbage)]_vars

\* a callback spawned one node in tick 1 and another one in tick 2: the
\* render of frame 2 shows the global light and the newer node only
BoundedSceneWitness ==
    \E x, y \in Nodes \ {GlobalLight} :
        /\ x # y
        /\ lastSpawn[x] = [by |-> "callback", mode |-> "IMMEDIATE", tick |-> 1]
        /\ lastSpawn[y] = [by |-> "callback", mode |-> "IMMEDIATE", tick |-> 2]
        /\ shown[x] = 1
        /\ lastRender = [kind |-> "frame", tick |-> 2,
                         scene |-> {GlobalLight, y}]

\* ------------------------------------------------------------------------
\* C7  mode is IMMEDIATE exactly when at least one tick has started, and the
\* only step that changes mode is the one entering __tick, from RETAINED to
\* IMMEDIATE.
ModeMonotone ==
    /\ [](mode = "IMMEDIATE" <=> tickNo >= 1)
    /\ [](mode \in {"RETAINED", "IMMEDIATE"})
    /\ [][mode' # mode => (/\ pc = "idle" /\ pc' = "tick"
                           /\ mode = "RETAINED" /\ mode' = "IMMEDIATE"
                           /\ tickNo = 0)]_vars

\* user code runs in IMMEDIATE mode after the second tick has started
ModeMonotoneWitness ==
    /\ mode = "IMMEDIATE"
    /\ tickNo >= 2
    /\ pc = "fn"

\* ------------------------------------------------------------------------
\* C8  Every spawn(node) step leaves node in the scene, appends node to
\* garbage exactly when mode is IMMEDIATE and leaves garbage as it was when
\* mode is RETAINED, and changes neither mode nor updateFns.
SpawnEffect ==
    [][\A x \in Nodes :
          Spawn(x) =>
            /\ x \in scene'
            /\ scene' = scene \cup {x}
            /\ mode = "IMMEDIATE" => garbage' = Append(garbage, x)
            /\ mode = "RETAINED" => garbage' = garbage
            /\ mode' = mode
            /\ updateFns' = updateFns]_vars

\* spawn has acted in both modes: a node spawned in RETAINED mode is in the
\* scene and not in garbage, a node spawned in IMMEDIATE mode is in the scene
\* and is the newest entry of garbage
SpawnEffectWitness ==
    \E x, y \in UserNodes :
        /\ lastSpawn[x].by # "none"
        /\ lastSpawn[x].mode = "RETAINED"
        /\ lastSpawn[y].mode = "IMMEDIATE"
        /\ {x, y} \subseteq scene
        /\ x \notin Range(garbage)
        /\ garbage # << >>
        /\ garbage[Len(garbage)] = y

\* ------------------------------------------------------------------------
\* C9  Wherever user code runs, remove(node) can be called for every node,
\* in the scene or not, in garbage or not, in either mode; the step leaves
\* node out of the scene, leaves every other node where it was, and leaves
\* mode, garbage and updateFns unchanged; a spawn of a node on which remove
\* was called puts it back into the scene.
RemoveEffect ==
    /\ [](UserCode => \A x \in UserNodes : ENABLED Remove(x))
    /\ [][\A x \in Nodes :
              Remove(x) =>
                /\ x \notin scene'
                /\ scene' = scene \ {x}
                /\ mode' = mode
                /\ garbage' = garbage
                /\ updateFns' = updateFns]_vars
    /\ [][\A x \in removedSince : Spawn(x) => x \in scene']_vars

\* remove was called in IMMEDIATE mode on a node that sits in garbage: the
\* node is out of the scene and still in garbage
RemoveEffectWitness ==
    \E x \in UserNodes :
        /\ x \in removedSince
        /\ mode = "IMMEDIATE"
        /\ x \in Range(garbage)
        /\ x \notin scene

\* ------------------------------------------------------------------------
\* the for loop of __tick is over: __tick returns
TickEnd == pc = "tick" /\ idx > Len(updateFns)

\* C10 as stated: a second or later tick, with no spawn call between the
\* previous tick and this one nor during this one, returns with the scene it
\* was entered with.
TickIdempotentAsStated ==
    (/\ TickEnd
     /\ tickNo >= 2
     /\ \A x \in Nodes :
           \/ lastSpawn[x].by = "none"
           \/ lastSpawn[x].tick < tickNo - 1
           \/ lastSpawn[x].tick = tickNo - 1 /\ lastSpawn[x].by = "callback")
    => scene = sceneBefore

\* C10 amended: a second or later tick, with no spawn call since the previous
\* tick was entered (during the previous tick, between the two, or during
\* this one) and no remove call during this one, finds garbage empty and
\* returns with the scene it was entered with.
TickIdempotent ==
    (/\ TickEnd
     /\ tickNo >= 2
     /\ ~tickRemove
     /\ \A x \in Nodes :
           lastSpawn[x].by = "none" \/ lastSpawn[x].tick < tickNo - 1)
    => (scene = sceneBefore /\ garbage = << >>)

\* a second tick has run its callbacks with no spawn since the first tick was
\* entered and a node of setup in the scene, which is as it was
TickIdempotentWitness ==
    /\ TickEnd
    /\ tickNo >= 2
    /\ ~tickRemove
    /\ \A x \in Nodes :
          lastSpawn[x].by = "none" \/ lastSpawn[x].tick < tickNo - 1
    /\ callLog # << >>
    /\ scene \cap UserNodes # {}
    /\ scene = sceneBefore

\* ------------------------------------------------------------------------
\* s is an initial part of t
IsPrefix(s, t) == Len(s) <= Len(t) /\ \A i \in 1 .. Len(s) : s[i] = t[i]

\* updateFns only grows at its end: no step removes, replaces or reorders a
\* registered callback (the half of C11 that holds of the code)
UpdateFnsAppendOnly == [][IsPrefix(updateFns, updateFns')]_vars

\* C11  Every callback registered through update(fn), during setup, inside
\* another callback or from a DOM event handler after setup, is invoked on
\* every following animation frame: between two frames a registered callback
\* has an animation loop that will call it, and when __tick returns every
\* callback registered by then has been called in this tick.
CallbacksDriven ==
    /\ (pc = "idle" /\ updateFns # << >>) => looping
    /\ TickEnd => [i \in 1 .. Len(callLog) |-> callLog[i].fn] = updateFns

\* ------------------------------------------------------------------------
\* C12  In every animation frame __tick is invoked once and the render comes
\* only after it has returned: the frame's render is made when every
\* registered callback has been called, no render (of the animation loop or
\* of the resize observer) is made while a tick runs, and a tick starts only
\* when the previous tick has been rendered.
TickThenRender ==
    /\ [][Render => (/\ pc = "tick"
                     /\ Len(callLog) = Len(updateFns)
                     /\ lastRender.tick < tickNo
                     /\ lastRender'.kind = "frame"
                     /\ lastRender'.tick = tickNo
                     /\ tickNo' = tickNo)]_vars
    /\ [](pc \in {"tick", "fn"} => lastRender.tick < tickNo)
    /\ [](pc = "idle" /\ tickNo >= 1 => lastRender.tick = tickNo)
    /\ [][tickNo' # tickNo =>
            (/\ tickNo' = tickNo + 1
             /\ pc = "idle"
             /\ tickNo >= 1 => lastRender.tick = tickNo)]_vars

\* the second frame was rendered after both of its callbacks had been called
TickThenRenderWitness ==
    /\ pc = "idle"
    /\ tickNo = 2
    /\ lastRender.kind = "frame"
    /\ lastRender.tick = 2
    /\ Len(callLog) = 2

\* ------------------------------------------------------------------------
RECURSIVE SumSeq(_)
SumSeq(s) == IF s = << >> THEN 0 ELSE Head(s) + SumSeq(Tail(s))

\* C13  The first __tick gets dt = 0 and elapsed = 0; every later one gets
\* dt = (this frame's timestamp - the previous frame's timestamp) / 1000 and
\* an elapsed that is the previous elapsed plus this dt; at every tick
\* elapsed is the sum of all dt handed out so far; timestamps that do not
\* decrease give dt >= 0 and an elapsed that does not decrease.
FrameClock ==
    /\ [][tickNo' = tickNo + 1 =>
            /\ tickNo = 0 => tickArgs' = [dt |-> 0, elapsed |-> 0]
            /\ tickNo >= 1 =>
                  /\ tickArgs'.dt = nowMs' - nowMs
                  /\ tickArgs'.elapsed = tickArgs.elapsed + tickArgs'.dt
            /\ nowMs' >= nowMs =>
                  /\ tickArgs'.dt >= 0
                  /\ tickArgs'.elapsed >= tickArgs.elapsed]_vars
    /\ [](/\ Len(dtLog) = tickNo
          /\ tickArgs.elapsed = SumSeq(dtLog)
          /\ tickNo >= 1 => tickArgs.dt = dtLog[tickNo])

\* a third tick runs with two different non-zero dt behind it
FrameClockWitness ==
    /\ pc = "fn"
    /\ tickNo = 3
    /\ dtLog[1] = 0
    /\ dtLog[2] = 16
    /\ dtLog[3] = 33
    /\ tickArgs = [dt |-> 33, elapsed |-> 49]

\* ------------------------------------------------------------------------
\* C14  The first __tick after the host had suspended the animation frames
\* (hidden tab, surface out of view, pointer gone) gets dt = 0, and its
\* elapsed is the elapsed of the tick before the suspension.
ClockResetOnResume ==
    (resumed /\ pc \in {"tick", "fn"}) =>
        /\ tickArgs.dt = 0
        /\ tickArgs.elapsed = SumSeq(SubSeq(dtLog, 1, tickNo - 1))

\* ------------------------------------------------------------------------
\* C15  The animation loop is set up exactly when updateFns is not empty at
\* the moment setup returns.  Without a loop __tick is never invoked, mode
\* stays RETAINED, garbage stays empty and the scene holds exactly the nodes
\* that were spawned and not removed; a tick is only ever run with a loop
\* that was set up for a non-empty updateFns.
StaticScene ==
    /\ [][SetupDone => (looping' <=> updateFns # << >>)]_vars
    /\ [][looping' # looping => SetupDone]_vars
    /\ []((pc # "setup" /\ ~looping) =>
            /\ tickNo = 0
            /\ callLog = << >>
            /\ mode = "RETAINED"
            /\ garbage = << >>
            /\ scene = RetainedNodes
            /\ \A x \in Nodes :
                  (lastSpawn[x].by \in {"ctor", "setup"} /\ x \notin removedSince)
                      => x \in scene)
    /\ [](tickNo >= 1 => (looping /\ updateFns # << >>))

\* setup spawned a node and registered no callback: after a resize render
\* and with every allowed call made, no tick has run and the node is in the
\* rendered scene
StaticSceneWitness ==
    /\ pc = "idle"
    /\ ~looping
    /\ budget = 0
    /\ tickNo = 0
    /\ lastRender.kind = "resize"
    /\ \E x \in UserNodes :
          lastSpawn[x].by = "setup" /\ x \in lastRender.scene

\* ------------------------------------------------------------------------
\* the callbacks in updateFns that drive the orbit controller
OrbitCallbacks == {i \in 1 .. Len(updateFns) : updateFns[i] = OrbitFn}

\* C16 as stated: once orbit() has been called, the controller has been
\* constructed exactly once and exactly one callback driving it is in
\* updateFns, in whichever mode the first call was made.
OrbitOnceAsStated ==
    orbitControls # Null =>
        /\ Len(orbitBuilt) = 1
        /\ Cardinality(OrbitCallbacks) = 1

\* C16 amended: once orbit() has been called, the controller has been
\* constructed exactly once; updateFns holds exactly one callback driving it
\* when the first call was made in RETAINED mode and none when it was made
\* in IMMEDIATE mode; later calls construct nothing, register nothing and
\* change the settings only when they carry a config.
OrbitOnce ==
    /\ [](orbitControls = Null <=> orbitBuilt = << >>)
    /\ [](orbitControls # Null =>
            /\ Len(orbitBuilt) = 1
            /\ Cardinality(OrbitCallbacks) =
                  (IF orbitBuilt[1] = "RETAINED" THEN 1 ELSE 0))
    /\ [][\A config \in Configs :
            (Orbit(config) /\ orbitControls # Null) =>
                /\ orbitBuilt' = orbitBuilt
                /\ updateFns' = updateFns
                /\ config = "undefined" => orbitControls' = orbitControls
                /\ config # "undefined" =>
                      orbitControls' = <<[autoRotate |-> TRUE]>>]_vars

\* setup called orbit() and a callback called orbit(config) again: the one
\* callback of the first call has been run by the tick, the controller is
\* the one built in RETAINED mode, with the new settings
OrbitOnceWitness ==
    /\ orbitBuilt = <<"RETAINED">>
    /\ mode = "IMMEDIATE"
    /\ orbitControls = <<[autoRotate |-> TRUE]>>
    /\ Cardinality(OrbitCallbacks) = 1
    /\ TickEnd
    /\ \E i \in 1 .. Len(callLog) : callLog[i].fn = OrbitFn
    /\ budget = 0

\* ------------------------------------------------------------------------
\* C17  Every __setCameraBounds(w, h) leaves the camera with left = -w/2,
\* right = w/2, top = h/2, bottom = -h/2, whatever the calls before it; the
\* camera always carries the extents of the latest call; a call with the
\* arguments of the previous call leaves the camera as it is; the call
\* changes nothing of the Ctx but the camera.
CameraBounds ==
    /\ [][\A wh \in Sizes :
            Resize(wh) =>
                /\ 2 * camera'.right = wh[1]
                /\ 2 * camera'.top = wh[2]
                /\ camera'.left = -camera'.right
                /\ camera'.bottom = -camera'.top
                /\ size = wh => camera' = camera
                /\ UNCHANGED <<scene, garbage, mode, updateFns,
                               orbitControls>>]_vars
    /\ [](size \in Sizes =>
            camera = [left |-> -(size[1] \div 2), right |-> size[1] \div 2,
                      top |-> size[2] \div 2, bottom |-> -(size[2] \div 2)])
    /\ [][camera' # camera => \E wh \in Sizes : Resize(wh)]_vars

\* two calls with different sizes were made and nothing else: the camera
\* has the extents of the second one
CameraBoundsWitness ==
    /\ budget = MaxOps - 2
    /\ pc = "idle"
    /\ updateFns = << >>
    /\ orbitControls = Null
    /\ removedSince = {}
    /\ \A x \in UserNodes : lastSpawn[x].by = "none"
    /\ size = <<400, 300>>
    /\ camera = [left |-> -200, right |-> 200, top |-> 150, bottom |-> -150]

\* ------------------------------------------------------------------------
\* the camera extents that belong to a surface of size wh
BoundsOf(wh) ==
    [left |-> -(wh[1] \div 2), right |-> wh[1] \div 2,
     top |-> wh[2] \div 2, bottom |-> -(wh[2] \div 2)]

\* C18  Whenever the renderer is given a new size, __setCameraBounds has been
\* called with that width and height before anything is rendered at that
\* size: every render, of the resize observer or of the animation loop,
\* draws with the camera extents of the size the renderer has at that
\* moment (before the first resize callback both are the defaults).
BoundsBeforeRender ==
    /\ [](view # Null =>
            \/ view[1].camera = BoundsOf(view[1].size)
            \/ /\ view[1].size = <<300, 150>>
               /\ view[1].camera = [left |-> -1, right |-> 1,
                                    top |-> 1, bottom |-> -1]
               /\ size = <<300, 150>>)
    /\ [][AnyRender => (view' # Null /\ view'[1].size = size'
                        /\ view'[1].camera = camera')]_vars
    /\ [][size' # size => (view' # Null /\ view'[1].size = size'
                           /\ view'[1].camera = BoundsOf(size'))]_vars

\* after two resizes to different sizes a frame was rendered with the
\* extents of the second size
BoundsBeforeRenderWitness ==
    /\ lastRender.kind = "frame"
    /\ pc = "idle"
    /\ budget = MaxOps - 3
    /\ updateFns = <<1>>
    /\ orbitControls = Null
    /\ removedSince = {}
    /\ \A x \in UserNodes : lastSpawn[x].by = "none"
    /\ ~resumed
    /\ view = <<[camera |-> BoundsOf(<<400, 300>>), size |-> <<400, 300>>]>>

\* ------------------------------------------------------------------------
\* C19  zoom(v) puts 1 / v on all three axes of camera.scale; zoom() returns
\* 1 / min(scaleX, scaleY, scaleZ) and leaves the camera as it is; for every
\* positive v, zoom() after zoom(v) returns v.
ZoomRoundTrip ==
    [][/\ \A v \in ZoomValues :
            Zoom(v) => \A axis \in Axes :
                           cameraScale'[axis] = FDiv(Num(1), v)
       /\ ZoomGet =>
            /\ cameraScale' = cameraScale
            /\ camera' = camera
            /\ zoomRet' = <<FDiv(Num(1), FMin(cameraScale[1],
                                  FMin(cameraScale[2], cameraScale[3])))>>
            /\ zoomArg # Null => zoomRet' = zoomArg]_vars


\* ------------------------------------------------------------------------
\* C20  graph(func, [from, to]) with from >= to fails at once with the
\* invalid-range error: func is not called, no value is computed (the bounds
\* are not swapped to make a graph), and scene, garbage, updateFns and mode
\* are as they were; a range with from < to never gives that error.
GraphRangeError ==
    [][\A func \in Funcs, range \in Ranges :
          Graph(func, range) =>
            /\ range[1] >= range[2] =>
                  /\ lastGraph' = <<[error |-> "range", calls |-> 0,
                                     values |-> 0]>>
                  /\ UNCHANGED <<scene, garbage, updateFns, mode>>
            /\ range[1] < range[2] => lastGraph'[1].error # "range"]_vars

\* an update callback has made a graph, which is in the scene and in
\* garbage, and then a graph call with a range that is not valid: the call
\* has failed and the graph of the first call is all there is
GraphRangeErrorWitness ==
    /\ pc = "fn"
    /\ mode = "IMMEDIATE"
    /\ budget = 0
    /\ lastGraph = <<[error |-> "range", calls |-> 0, values |-> 0]>>
    /\ Len(garbage) = 1
    /\ scene = {GlobalLight, garbage[1]}

\* ------------------------------------------------------------------------
\* C21  graph(func, [from, to]) with from < to and a func that is finite
\* everywhere raises no error and computes round((to - from) * 0.5 * zoom)
\* + 1 values, the first at x = from and the last at x = to, also when the
\* rounded count is 0.
GraphSamples ==
    [][\A func \in {"constant", "ofX"}, range \in Ranges :
          Graph(func, range) /\ range[1] < range[2] =>
            /\ lastGraph'[1].error = "none"
            /\ lastGraph'[1].values =
                  MathRound(FMul(Num(range[2] - range[1]),
                                 FMul(RoundTo(1, -1), zoomGet(cameraScale))))
                  + 1
            /\ graphEnds' = <<[first |-> "from", last |-> "to"]>>]_vars

\* ------------------------------------------------------------------------
\* C22  heightField with a heights array whose length is not
\* (widthSegments + 1) * (depthSegments + 1) fails at once with an error
\* that gives the expected and the actual count; no object is made and
\* nothing is spawned.
HeightFieldLength ==
    [][\A segments \in Segments, heightCount \in HeightCounts :
          /\ HeightField(segments, heightCount)
          /\ heightCount # (segments[1] + 1) * (segments[2] + 1)
          => /\ thrown' # Null
             /\ thrown'[1].expected = (segments[1] + 1) * (segments[2] + 1)
             /\ thrown'[1].got = heightCount
             /\ UNCHANGED <<scene, garbage, objects, updateFns, mode>>]_vars

\* an update callback has made a height field of 4 heights and has then
\* called heightField with 6 heights for 1 x 1 segments: the call has
\* failed and the first height field is all there is
HeightFieldLengthWitness ==
    /\ pc = "fn"
    /\ mode = "IMMEDIATE"
    /\ thrown = <<[error |-> "Heights array length mismatch",
                   expected |-> 4, got |-> 6]>>
    /\ Len(garbage) = 1
    /\ scene = {GlobalLight, garbage[1]}
    /\ objects[garbage[1]] # Null

\* ------------------------------------------------------------------------
\* C23  color(array) on a LineStrip, a HeightField or a Points object with
\* an array whose length is not the point count of the object fails at once
\* with an error that gives the expected and the actual count, and leaves
\* the colors and the material of the object and the scene as they were.
ColorLength ==
    [][\A object \in UserNodes, color \in ColorInputs :
          /\ Color(object, color)
          /\ color.array
          /\ Len(color.value) # objects[object][1].pointCount
          => /\ thrown' # Null
             /\ thrown'[1].expected = objects[object][1].pointCount
             /\ thrown'[1].got = Len(color.value)
             /\ UNCHANGED <<objects, scene, garbage>>]_vars

\* a line strip of 2 points has taken an array of 2 colors and has then
\* refused an array of 4: it has the 2 colors still, with vertexColors
ColorLengthWitness ==
    /\ thrown = <<[error |-> "Color array length must match point count",
                   expected |-> 2, got |-> 4]>>
    /\ \E object \in scene \cap UserNodes :
          /\ objects[object] # Null
          /\ objects[object][1].colors = <<"red", "red">>
          /\ objects[object][1].material.vertexColors

\* ------------------------------------------------------------------------
\* C24  A func that returns a value that is not finite is treated the same
\* way by graph and by graph3d: the call fails with an error at the first
\* such value, and nothing is spawned.
NonFinitePolicy ==
    [][/\ \A range \in {r \in Ranges : r[1] < r[2]} \cup {Null} :
            Graph("nonFinite", range) =>
              /\ lastGraph'[1].error = "value"
              /\ lastGraph'[1].calls = 1
              /\ UNCHANGED <<scene, garbage>>
       /\ Graph3d("nonFinite") =>
              /\ lastGraph'[1].error = "value"
              /\ lastGraph'[1].calls = 1
              /\ UNCHANGED <<scene, garbage>>]_vars

\* ------------------------------------------------------------------------
\* C25  setTheme(t) changes the theme and the background of the scene and
\* nothing else: the objects made before keep their colors.  An object made
\* later without a color of its own has the foreground color of theme t.
ThemeEffect ==
    [][LET fg == IF theme = "dark" THEN "#ffffff" ELSE "#0a0a0a"
           made(object) == objects[object] = Null /\ objects'[object] # Null
       IN /\ \A t \in Themes :
               SetTheme(t) =>
                 /\ theme' = t
                 /\ background' = IF t = "dark" THEN "#0a0a0a" ELSE "#ffffff"
                 /\ UNCHANGED <<objects, scene, garbage, mode, updateFns,
                                camera, cameraScale, orbitControls>>
          /\ \A n \in PointCounts :
               LineStrip(n) =>
                 \E object \in UserNodes :
                    made(object) /\ objects'[object][1].material.color = fg
          /\ \A n \in PointCounts :
               Points(n) =>
                 \E object \in UserNodes :
                    made(object) /\ objects'[object][1].colors = Fill(n, fg)
          /\ \A segments \in Segments, heightCount \in HeightCounts :
               HeightField(segments, heightCount) /\ thrown' = Null =>
                 \E object \in UserNodes :
                    /\ made(object)
                    /\ objects'[object][1].colors = Fill(heightCount, fg)]_vars

\* a line strip made in the light theme, setTheme("dark"), and a line strip
\* made after it: the first has the light foreground still, the second has
\* the dark one
ThemeEffectWitness ==
    /\ theme = "dark"
    /\ background = "#0a0a0a"
    /\ \E first \in UserNodes, second \in UserNodes :
          /\ objects[first] # Null /\ objects[second] # Null
          /\ objects[first][1].kind = "LineStrip"
          /\ objects[second][1].kind = "LineStrip"
          /\ objects[first][1].material.color = "#0a0a0a"
          /\ objects[second][1].material.color = "#ffffff"

\* ------------------------------------------------------------------------
\* C26  After dispose() nothing that the construction subscribed is active:
\* the resize observer is disconnected, the mousemove listener of the
\* document is removed, and the wrapper has no parent.
DisposeReleases ==
    disposed => ~observing /\ ~mouseListener /\ ~wrapperParent

RetainedRespawn ==
    /\ [][\A object \in UserNodes :
            Spawn(object) =>
              garbage' = IF mode = "IMMEDIATE" THEN Append(garbage, object)
                         ELSE garbage]_vars
    /\ [](\A x \in retained :
            lastSpawn[x].mode = "IMMEDIATE" =>
              IF lastSpawn[x].tick = tickNo
              THEN x \in Range(garbage)
              ELSE x \notin scene /\ x \notin Range(garbage))

\* a node that setup spawned was spawned again by a callback of the tick
\* before this one: the frame of this tick was rendered without it
RetainedRespawnWitness ==
    \E x \in UserNodes :
        /\ x \in retained
        /\ lastSpawn[x].by = "callback"
        /\ lastSpawn[x].tick = tickNo - 1
        /\ x \notin removedSince
        /\ lastRender.kind = "frame"
        /\ lastRender.tick = tickNo
        /\ x \notin lastRender.scene

\* ------------------------------------------------------------------------
\* C29  While mode is IMMEDIATE only a direct update(fn) appends to
\* updateFns: a billboard text and the first orbit() register their callback
\* in RETAINED mode only and act once otherwise, so a callback that makes a
\* billboard text at every tick leaves the length of updateFns as it is.
RegistersOnlyRetained ==
    [][/\ mode = "IMMEDIATE" /\ updateFns' # updateFns
            => \E fn \in Fns : Update(fn)
       /\ TextBillboard =>
            updateFns' = IF mode = "RETAINED"
                         THEN Append(updateFns, BillboardFn) ELSE updateFns
       /\ \A config \in Configs :
            Orbit(config) =>
              updateFns' = IF mode = "RETAINED" /\ orbitControls = Null
                           THEN Append(updateFns, OrbitFn)
                           ELSE updateFns]_vars

\* a callback has made a billboard text: the text is in the scene and the
\* callback is the only one there is
RegistersOnlyRetainedWitness ==
    /\ pc = "fn"
    /\ mode = "IMMEDIATE"
    /\ updateFns = <<1>>
    /\ \E object \in scene \cap UserNodes :
          /\ objects[object] # Null
          /\ objects[object][1].kind = "Text"
          /\ lastSpawn[object].by = "callback"

\* ------------------------------------------------------------------------
\* C30  A callback that a callback registers through update(fn) during a
\* tick is called in this very tick, after every callback registered before
\* it: the loop of __tick goes over the list as it is, and when the tick
\* ends every callback of the list has been called once, in list order.
LateCallback ==
    /\ [][\A fn \in Fns :
            Update(fn) /\ pc = "fn" =>
              /\ updateFns' = Append(updateFns, fn)
              /\ Len(callLog) < Len(updateFns')
              /\ idx' < Len(updateFns')]_vars
    /\ [][Render =>
            /\ fnsBefore <= Len(updateFns)
            /\ Len(callLog) = Len(updateFns)
            /\ \A i \in 1 .. Len(updateFns) :
                  callLog[i].fn = updateFns[i]]_vars

\* the first tick was entered with one callback, which registered callback
\* 2: both were called in this tick, callback 2 last
LateCallbackWitness ==
    /\ pc = "idle"
    /\ tickNo = 1
    /\ lastRender.kind = "frame"
    /\ lastRender.tick = 1
    /\ fnsBefore = 1
    /\ updateFns = <<1, 2>>
    /\ Len(callLog) = 2
    /\ callLog[1].fn = 1
    /\ callLog[2].fn = 2
====
